---- MODULE Spec2Model ----
(***************************************************************************)
(* Model of the two Sink implementations of substrate-archive/src/sink.ts: *)
(*   - PostgresSink: column buffers (class Insert), the size/last flush    *)
(*     policy of write(), submit() and the BEGIN/COMMIT/ROLLBACK bracket   *)
(*     of tx();                                                            *)
(*   - WritableSink: write() under backpressure, drain(), onDrain,         *)
(*     onError and close().                                                *)
(* Each await of the source is a separate step of the model: the reply of  *)
(* the connection (or the notification of the stream) is the environment's *)
(* nondeterministic choice.                                                *)
(***************************************************************************)
EXTENDS Integers, Sequences, FiniteSets, TLC

\* ---------------------------------------------------------------- bounds
\* Number of blocks handed to PostgresSink.write in one run.
MaxBlocks == 22

\* Length of the repeating pattern of block shapes the producer delivers.
CycleLen == 2

\* Number of calls of WritableSink.write in one run.
MaxCalls == 3

\* Number of notifications ('drain', 'error') the stream emits in one run.
MaxEvents == 3

\* Number of calls of WritableSink.close in one run.
MaxCloses == 2

\* Number of rows handed to one Insert buffer (by add or addMany) in one run.
MaxAdds == 3

\* Number of times mergeContextRequests(., a) is applied again to its own result.
MaxSelfMerges == 2

\* -------------------------------------------------------- program constants
\* sink.ts:97  `this.headerInsert.size > 20`
FlushThreshold == 20

\* ------------------------------------------------------------ Insert<E>
\* Variant of Tables: the header buffer is queried before the metadata buffer.
TablesBlockFirst == <<"block", "metadata", "extrinsic", "call", "event", "warning">>

\* The six Insert instances of PostgresSink, in the order submit() queries
\* and clears them (sink.ts:106-111, 113-118).
Tables == <<"metadata", "block", "extrinsic", "call", "event", "warning">>

TableSet == {Tables[i] : i \in 1..Len(Tables)}

\* Column names of each Insert, in declaration order (Object.keys(mapping)).
Mapping(table) ==
    CASE table = "metadata"  -> <<"spec_version", "block_height", "block_hash", "hex">>
      [] table = "block"     -> <<"id", "height", "hash", "parent_hash", "timestamp",
                                  "spec_version">>
      [] table = "extrinsic" -> <<"id", "block_id", "name", "index_in_block", "signature",
                                  "success", "hash", "call_id">>
      [] table = "call"      -> <<"id", "index", "block_id", "extrinsic_id", "name",
                                  "parent_id", "success", "args">>
      [] table = "event"     -> <<"id", "block_id", "phase", "index_in_block", "name",
                                  "extrinsic_id", "call_id", "args">>
      [] table = "warning"   -> <<"block_id", "message">>

ColumnNames(table) == {Mapping(table)[i] : i \in 1..Len(Mapping(table))}

\* The optional `map` of a column definition ("none" when the column has none).
ColumnMap(table, name) ==
    CASE table = "extrinsic" /\ name = "signature" -> "toJsonString"
      [] table = "extrinsic" /\ name = "hash"      -> "toJSON"
      [] table = "call"      /\ name = "args"      -> "toJsonString"
      [] table = "event"     /\ name = "args"      -> "toJsonString"
      [] OTHER                                    -> "none"

\* Insert.makeColumns: one empty array per mapped column.
makeColumns(table) == [name \in ColumnNames(table) |-> <<>>]

\* Insert.size: the length of the first column in iteration order.
Size(table, columns) == Len(columns[Mapping(table)[1]])

\* The value add() pushes for column `name` of row `row`:
\* def.map ? def.map(row[name]) : row[name].  A row is identified by the
\* number of the block it belongs to.
Cell(table, name, row) ==
    [map |-> ColumnMap(table, name), row |-> row]

\* Insert.add: push one value on every column.
InsertAdd(table, columns, row) ==
    [name \in ColumnNames(table) |-> Append(columns[name], Cell(table, name, row))]

\* Variant of InsertAddMany: the loop stops one row early (i < rows.length - 1).
RECURSIVE InsertAddManySkipsLast(_, _, _)
InsertAddManySkipsLast(table, columns, rows) ==
    IF Len(rows) <= 1 THEN columns
    ELSE InsertAddManySkipsLast(table, InsertAdd(table, columns, Head(rows)), Tail(rows))

\* Insert.addMany: add() for each row, in order.
RECURSIVE InsertAddMany(_, _, _)
InsertAddMany(table, columns, rows) ==
    IF rows = <<>> THEN columns
    ELSE InsertAddMany(table, InsertAdd(table, columns, Head(rows)), Tail(rows))

\* Insert.query: no statement at all when size == 0.
QueryIssues(table, columns) == Size(table, columns) # 0

\* The rows a bulk insert of `columns` sends: the row ids of the first column.
RowsOf(table, columns) ==
    [i \in 1..Size(table, columns) |-> columns[Mapping(table)[1]][i].row]

\* ------------------------------------------------------------ BlockData
\* What a block carries besides its header: metadata present or not, the
\* number of extrinsics, calls and events, and warnings absent ("absent"),
\* an empty list ("empty") or one warning ("one").
Bare    == [metadata |-> FALSE, extrinsics |-> 0, calls |-> 0, events |-> 0,
            warnings |-> "absent"]
Partial == [metadata |-> FALSE, extrinsics |-> 1, calls |-> 1, events |-> 0,
            warnings |-> "empty"]
Full    == [metadata |-> TRUE, extrinsics |-> 1, calls |-> 1, events |-> 1,
            warnings |-> "one"]

Shapes == {Bare, Partial, Full}

\* The rows of one entity of block n: `count` rows, each identified by n.
Rows(n, count) == [i \in 1..count |-> n]

VARIABLES
    chain,          \* the producer's pattern of block shapes, fixed for a run
    nblocks,        \* number of blocks passed to PostgresSink.write so far
    last,           \* block.last of the current / most recent write
    inserts,        \* the six Insert buffers: table -> columns
    pc,             \* "idle", or the statement write() is awaiting the reply of
    stmts,          \* statements sent to the connection by the current write
    caught,         \* `e` of the catch clause of tx() ("none" outside of it)
    result,         \* outcome of the most recent write: "none", "running", "ok", "error"
    thrown,         \* the error the most recent write raised ("none" if it did not)
    atSubmit,       \* the Insert buffers after the appends of the current write,
                    \*   which is what submit() starts from
    dbErrors,       \* connection: the statements of the current write it failed
    pending,        \* connection: rows inserted by the open transaction
    committed,      \* connection: rows of committed transactions, per table
    progress        \* total count reported to the speed / progress trackers

pvars == <<chain, nblocks, last, inserts, pc, stmts, caught, result, thrown,
           atSubmit, dbErrors, pending, committed, progress>>

VARIABLES
    listeners,      \* WritableSink: the events of the stream the sink listens to
    error,          \* WritableSink.error ("none" while undefined)
    drainHandle,    \* WritableSink.drainHandle: the call awaiting drain, 0 if none
    wpc,            \* per call of write: "new", "waiting", "done", "failed"
    promise,        \* per call: the promise of drain(): "none", "pending",
                    \*   "resolved", or the error it was rejected with
    wthrown,        \* per call: the error write raised ("none" if it did not)
    saturated,      \* per call: writable.write('\n') returned false
    reported,       \* per call: rows reported to the speed / progress trackers
    channel,        \* the chunks enqueued on the stream, in order
    emitted,        \* the notifications the stream has emitted, in order
    closes          \* number of calls of close() by the owner of the sink

wvars == <<listeners, error, drainHandle, wpc, promise, wthrown, saturated, reported,
           channel, emitted, closes>>

VARIABLES
    itable,         \* a single Insert: the table it was constructed for
    icolumns,       \* a single Insert: this.columns
    iadds,          \* a single Insert: number of rows handed to add() so far
    isent           \* a single Insert: the arrays of the last statement query() sent

ivars == <<itable, icolumns, iadds, isent>>

VARIABLES
    sa, sb,         \* the two selection trees handed to mergeContextRequests
    sab,            \* the result of mergeContextRequests(a, b)
    sba,            \* the result of mergeContextRequests(b, a)
    saa,            \* the result of merging a with itself, repeatedly
    smerges,        \* number of self merges done
    spc             \* which of the calls have returned

svars == <<sa, sb, sab, sba, saa, smerges, spc>>

VARIABLES
    regA, regB, regC,     \* three handler registries (DataHandlers)
    regAB,            \* mergeDataHandlers(a, b)
    regBA,            \* mergeDataHandlers(b, a)
    regBC,            \* mergeDataHandlers(b, c)
    regABThenC,       \* mergeDataHandlers(mergeDataHandlers(a, b), c)
    regAThenBC,       \* mergeDataHandlers(a, mergeDataHandlers(b, c))
    hpc             \* which of the merges have returned

hvars == <<regA, regB, regC, regAB, regBA, regBC, regABThenC, regAThenBC, hpc>>

vars == <<pvars, wvars, ivars, svars, hvars>>

\* The state of the components a specification leaves alone.
exceptP == <<wvars, ivars, svars, hvars>>

exceptW == <<pvars, ivars, svars, hvars>>

exceptI == <<pvars, wvars, svars, hvars>>

exceptS == <<pvars, wvars, ivars, hvars>>

exceptH == <<pvars, wvars, ivars, svars>>

\* ------------------------------------------------------ selection merge
\* Field names used in selection trees and keys used in handler maps.
Keys == {"x", "y"}

\* The empty object {}.
NoMap == [key \in {} |-> "undefined"]

\* The values a selection can hold: true, undefined (an absent field reads
\* as undefined, and a field may be set to undefined) and a nested object.
True == [kind |-> "true", m |-> NoMap]

Undefined == [kind |-> "undefined", m |-> NoMap]

Map(m) == [kind |-> "map", m |-> m]

\* All objects with keys among Keys and field values among `values`.
MapsOver(values) == UNION {[d -> values] : d \in SUBSET Keys}

Leaves == {True, Undefined}

\* Objects of true / undefined fields, and objects whose fields may also
\* hold such objects.
Nested == {Map(m) : m \in MapsOver(Leaves)}

ContextRequests == {Map(m) : m \in MapsOver(Leaves \cup Nested)}

\* a[key] and a?.[key]: undefined when the object has no such key.
Lookup(m, key) == IF key \in DOMAIN m THEN m[key] ELSE Undefined

\* x == null.
IsNull(x) == x.kind = "undefined"

\* !x, over the values above (an object is truthy, also an empty one).
Falsy(x) == x.kind = "undefined"

RECURSIVE mergeMaps(_, _, _)

\* Variant of merge: the test for true (line 60) is missing.
mergeWithoutTrue(fa, fb) ==
    IF Falsy(fa) THEN fb
    ELSE IF Falsy(fb) THEN fa
    ELSE Map(mergeMaps(fa.m, fb.m, "merge"))

\* Variant of merge: two objects are not merged, the first one is kept.
mergeKeepsFirst(fa, fb) ==
    IF fa = True \/ fb = True THEN True
    ELSE IF Falsy(fa) THEN fb
    ELSE fa

\* The inner function merge of mergeContextRequests.
merge(fa, fb) ==
    IF fa = True \/ fb = True THEN True
    ELSE IF Falsy(fa) THEN fb
    ELSE IF Falsy(fb) THEN fa
    ELSE Map(mergeMaps(fa.m, fb.m, "merge"))

\* Variant of mergeContextRequests: an absent side yields the other side.
mergeContextRequestsKeepsPresent(a, b) ==
    IF IsNull(a) THEN b
    ELSE IF IsNull(b) THEN a
    ELSE Map(mergeMaps(a.m, b.m, "merge"))

mergeContextRequests(a, b) ==
    IF IsNull(a) \/ IsNull(b) THEN Undefined
    ELSE Map(mergeMaps(a.m, b.m, "merge"))

\* Variant of mergeHandlerLists: b's handlers come first.
mergeHandlerListsBFirst(a, b) ==
    [kind |-> "handlerList",
     data |-> mergeContextRequests(a.data, b.data),
     handlers |-> b.handlers \o a.handlers]

mergeHandlerLists(a, b) ==
    [kind |-> "handlerList",
     data |-> mergeContextRequests(a.data, b.data),
     handlers |-> a.handlers \o b.handlers]

\* Variant of concat: the entries of hb are left out.
concatKeepsFirst(ha, hb) == [kind |-> "array", items |-> ha.items]

\* (ha, hb) => ha.concat(hb), the item merge of evmLogs.
concat(ha, hb) == [kind |-> "array", items |-> ha.items \o hb.items]

\* mergeItems(x, y) for the function passed to mergeMaps, named by `mergeItems`.
Apply(mergeItems, x, y) ==
    CASE mergeItems = "merge"             -> merge(x, y)
      [] mergeItems = "mergeHandlerLists" -> mergeHandlerLists(x, y)
      [] mergeItems = "concat"            -> concat(x, y)

\* Variant of mergeMaps: the second loop (the keys of b) is missing.
mergeMapsWithoutSecondLoop(a, b, mergeItems) ==
    [key \in DOMAIN a |->
        IF IsNull(Lookup(b, key)) THEN a[key] ELSE Apply(mergeItems, a[key], b[key])]

\* mergeMaps: the first loop sets every key of a, the second loop sets
\* (again, if need be) every key of b at which a holds nothing.
mergeMaps(a, b, mergeItems) ==
    [key \in DOMAIN a \cup {k \in DOMAIN b : IsNull(Lookup(a, k))} |->
        IF key \in DOMAIN b /\ IsNull(Lookup(a, key)) THEN b[key]
        ELSE IF IsNull(Lookup(b, key)) THEN a[key]
        ELSE Apply(mergeItems, a[key], b[key])]

\* ------------------------------------------------------ handler registries
\* A handler, named by the registry that registered it, its category and key.
Handler(reg, category, key) == [reg |-> reg, category |-> category, key |-> key]

HandlerList(data, handlers) == [kind |-> "handlerList", data |-> data, handlers |-> handlers]

Array(items) == [kind |-> "array", items |-> items]

\* The data a handler list or an evmLogs entry comes with.
DataSet == {Undefined, Map([k \in {"x"} |-> True]),
            Map([k \in {"x"} |-> Map([j \in {"y"} |-> True])])}

\* The choices that make a registry: for each key it uses, the data of the
\* handler lists under that key.
DataChoices == UNION {[d -> DataSet] : d \in SUBSET Keys}

\* The sets of contract addresses with evmLogs entries.
AddressChoices == {{}, {"x"}, {"x", "y"}}

\* The DataHandlers of registry `reg`: one handler in every list it defines.
DataHandlers(reg, datas, addresses) ==
    [pre |-> IF "x" \in addresses THEN <<Handler(reg, "pre", "")>> ELSE <<>>,
     post |-> IF "y" \in addresses THEN <<Handler(reg, "post", "")>> ELSE <<>>,
     events |-> [k \in DOMAIN datas |->
                    HandlerList(datas[k], <<Handler(reg, "events", k)>>)],
     calls |-> [k \in DOMAIN datas |->
                    HandlerList(datas[k], <<Handler(reg, "calls", k)>>)],
     evmLogs |-> [k \in addresses |->
                    Array(<<[data |-> Lookup(datas, k),
                             handler |-> Handler(reg, "evmLogs", k)]>>)],
     contractsContractEmitted |-> [k \in DOMAIN datas |->
                    HandlerList(datas[k], <<Handler(reg, "contractsContractEmitted", k)>>)]]

\* A registry without handlers.
NoHandlers ==
    [pre |-> <<>>, post |-> <<>>, events |-> NoMap, calls |-> NoMap, evmLogs |-> NoMap,
     contractsContractEmitted |-> NoMap]

\* mergeDataHandlers: pre and post concatenated, the four maps merged by key.
mergeDataHandlers(a, b) ==
    [pre |-> a.pre \o b.pre,
     post |-> a.post \o b.post,
     events |-> mergeMaps(a.events, b.events, "mergeHandlerLists"),
     calls |-> mergeMaps(a.calls, b.calls, "mergeHandlerLists"),
     evmLogs |-> mergeMaps(a.evmLogs, b.evmLogs, "concat"),
     contractsContractEmitted |->
        mergeMaps(a.contractsContractEmitted, b.contractsContractEmitted, "mergeHandlerLists")]

\* The three registries before any merge.
HConstructed(a, b, c) ==
    /\ regA = a
    /\ regB = b
    /\ regC = c
    /\ regAB = NoHandlers
    /\ regBA = NoHandlers
    /\ regBC = NoHandlers
    /\ regABThenC = NoHandlers
    /\ regAThenBC = NoHandlers
    /\ hpc = "start"

\* The selection trees without a request.
SConstructed(a, b) ==
    /\ sa = a
    /\ sb = b
    /\ sab = Undefined
    /\ sba = Undefined
    /\ saa = a
    /\ smerges = 0
    /\ spc = "start"

\* The shape of the n-th block of the run.
ShapeOf(n) == chain[((n - 1) % CycleLen) + 1]

NoRows == [t \in TableSet |-> <<>>]

EmptyInserts == [t \in TableSet |-> makeColumns(t)]

\* sink.ts:87-96: the appends of write(), in source order.
WriteAppend(ins, n, shape) ==
    [t \in TableSet |->
        CASE t = "metadata"  -> IF shape.metadata
                                THEN InsertAdd(t, ins[t], n) ELSE ins[t]
          [] t = "block"     -> InsertAdd(t, ins[t], n)
          [] t = "extrinsic" -> InsertAddMany(t, ins[t], Rows(n, shape.extrinsics))
          [] t = "call"      -> InsertAddMany(t, ins[t], Rows(n, shape.calls))
          [] t = "event"     -> InsertAddMany(t, ins[t], Rows(n, shape.events))
          [] t = "warning"   -> IF shape.warnings = "absent" THEN ins[t]
                                ELSE InsertAddMany(t, ins[t],
                                        Rows(n, IF shape.warnings = "one" THEN 1 ELSE 0))]

\* Variant of NeedsSubmit: the comparison is >= instead of >.
NeedsSubmitAtThreshold(isLast, headerSize) == isLast \/ headerSize >= FlushThreshold

\* Variant of NeedsSubmit: block.last is not looked at.
NeedsSubmitIgnoringLast(isLast, headerSize) == headerSize > FlushThreshold

\* Variant of NeedsSubmit: the size of the header buffer is not looked at.
NeedsSubmitIgnoringSize(isLast, headerSize) == isLast

\* sink.ts:97: `block.last || this.headerInsert.size > 20`.
NeedsSubmit(isLast, headerSize) == isLast \/ headerSize > FlushThreshold

\* The statement the callback of submit() sends next, looking at the tables
\* from position i on: the first Insert whose query() is not skipped, and
\* COMMIT (sink.ts:130) when there is none left.
RECURSIVE NextStatement(_, _)
NextStatement(ins, i) ==
    IF i > Len(Tables) THEN "COMMIT"
    ELSE IF QueryIssues(Tables[i], ins[Tables[i]]) THEN Tables[i]
    ELSE NextStatement(ins, i + 1)

IndexOf(table) == CHOOSE i \in 1..Len(Tables) : Tables[i] = table

\* Insert.clear: fresh empty columns.
InsertClear(table) == makeColumns(table)

\* Variant of SubmitBuffers: the clear() of the warning buffer is missing.
SubmitBuffersKeepsWarnings(ins, txSucceeded) ==
    IF txSucceeded
    THEN [t \in TableSet |-> IF t = "warning" THEN ins[t] ELSE InsertClear(t)]
    ELSE ins

\* Variant of SubmitBuffers: the clear() calls are in a finally clause.
SubmitBuffersAlwaysClears(ins, txSucceeded) == [t \in TableSet |-> InsertClear(t)]

\* sink.ts:105-118: the buffers when submit() is left.  The six clear() calls
\* follow `await this.tx(...)`, so they run only when tx() did not throw.
SubmitBuffers(ins, txSucceeded) ==
    IF txSucceeded THEN [t \in TableSet |-> InsertClear(t)] ELSE ins

\* Variant of Guarded: tx() has no catch clause, every error is thrown at once.
GuardedNever(statement) == FALSE

\* sink.ts:127-135: the callback and COMMIT are inside the try of tx(), BEGIN
\* is sent before it.
Guarded(statement) == statement # "BEGIN"

\* Variant of TxRethrow: the ROLLBACK promise has no .catch, its rejection
\* replaces the caught error.
TxRethrowMasked(e, rollbackFailed) == IF rollbackFailed THEN "ROLLBACK" ELSE e

\* sink.ts:132-135: what tx() throws after the ROLLBACK attempt; the outcome
\* of the ROLLBACK is discarded by `.catch(() => {})`.
TxRethrow(e, rollbackFailed) == e

\* An error is identified by the statement whose execution the connection
\* failed: the error of a failed COMMIT is "COMMIT".
ErrorOf(statement) == statement

\* ------------------------------------------------------- PostgresSink
\* The calls of WritableSink.write of a run.
Calls == 1..MaxCalls

\* The errors the stream can emit.
Errors == {"E1", "E2"}

\* WritableSink after its constructor: both listeners attached, no error, no
\* drain waiter.
WConstructed ==
    /\ listeners = {"error", "drain"}
    /\ error = "none"
    /\ drainHandle = 0
    /\ wpc = [c \in Calls |-> "new"]
    /\ promise = [c \in Calls |-> "none"]
    /\ wthrown = [c \in Calls |-> "none"]
    /\ saturated = [c \in Calls |-> FALSE]
    /\ reported = [c \in Calls |-> 0]
    /\ channel = <<>>
    /\ emitted = <<>>
    /\ closes = 0

\* A single Insert after its constructor, for table `table`.
IConstructed(table) ==
    /\ itable = table
    /\ icolumns = makeColumns(table)
    /\ iadds = 0
    /\ isent = <<>>

\* PostgresSink after its constructor, for the producer's pattern `pattern`.
PConstructed(pattern) ==
    /\ chain = pattern
    /\ nblocks = 0
    /\ last = FALSE
    /\ inserts = EmptyInserts
    /\ pc = "idle"
    /\ stmts = <<>>
    /\ caught = "none"
    /\ result = "none"
    /\ thrown = "none"
    /\ atSubmit = EmptyInserts
    /\ dbErrors = <<>>
    /\ pending = NoRows
    /\ committed = NoRows
    /\ progress = 0

PInit ==
    /\ \E pattern \in [1..CycleLen -> Shapes] : PConstructed(pattern)
    /\ WConstructed
    /\ IConstructed("metadata")
    /\ SConstructed(Undefined, Undefined)
    /\ HConstructed(NoHandlers, NoHandlers, NoHandlers)

\* PostgresSink.write(block) up to its first await: the appends, the flush
\* decision and, when submit() is entered, the sending of BEGIN by tx().
Write(isLast) ==
    /\ pc = "idle"
    /\ nblocks < MaxBlocks
    /\ LET n == nblocks + 1
           appended == WriteAppend(inserts, n, ShapeOf(n))
       IN /\ nblocks' = n
          /\ last' = isLast
          /\ inserts' = appended
          /\ caught' = "none"
          /\ thrown' = "none"
          /\ dbErrors' = <<>>
          /\ atSubmit' = appended
          /\ IF NeedsSubmit(isLast, Size("block", appended["block"]))
             THEN /\ stmts' = <<"BEGIN">>
                  /\ pc' = "BEGIN"
                  /\ result' = "running"
             ELSE /\ stmts' = <<>>
                  /\ pc' = "idle"
                  /\ result' = "ok"
    /\ UNCHANGED <<chain, pending, committed, progress>>
    /\ UNCHANGED exceptP

\* Send the next statement of the transaction body, or COMMIT.
SendNext(i) ==
    LET next == NextStatement(inserts, i)
    IN /\ pc' = next
       /\ stmts' = Append(stmts, next)

\* BEGIN succeeded: a new transaction is open, the callback starts.
BeginOk ==
    /\ pc = "BEGIN"
    /\ pending' = NoRows
    /\ SendNext(1)
    /\ UNCHANGED <<chain, nblocks, last, inserts, caught, result, thrown, atSubmit,
                   dbErrors, committed, progress>>
    /\ UNCHANGED exceptP

\* sink.ts:132-133: an error of the callback or of COMMIT is caught and
\* ROLLBACK is sent.  The failed transaction is void on the connection.
Catch(statement) ==
    /\ caught' = ErrorOf(statement)
    /\ pending' = NoRows
    /\ stmts' = Append(stmts, "ROLLBACK")
    /\ pc' = "ROLLBACK"
    /\ UNCHANGED <<inserts, result, thrown>>

\* An error outside the try leaves tx(), submit() and write() at once.
Throw(statement) ==
    /\ thrown' = ErrorOf(statement)
    /\ result' = "error"
    /\ inserts' = SubmitBuffers(inserts, FALSE)
    /\ pc' = "idle"
    /\ UNCHANGED <<stmts, caught, pending>>

\* The connection fails the statement write() is awaiting.
StatementFails(statement) ==
    /\ dbErrors' = Append(dbErrors, ErrorOf(statement))
    /\ IF Guarded(statement) THEN Catch(statement) ELSE Throw(statement)
    /\ UNCHANGED <<chain, nblocks, last, atSubmit, committed, progress>>
    /\ UNCHANGED exceptP

\* BEGIN failed (sink.ts:127).
BeginFail ==
    /\ pc = "BEGIN"
    /\ StatementFails("BEGIN")

\* A bulk insert succeeded: its rows belong to the open transaction.
InsertOk ==
    /\ pc \in TableSet
    /\ pending' = [pending EXCEPT ![pc] = RowsOf(pc, inserts[pc])]
    /\ SendNext(IndexOf(pc) + 1)
    /\ UNCHANGED <<chain, nblocks, last, inserts, caught, result, thrown, atSubmit,
                   dbErrors, committed, progress>>
    /\ UNCHANGED exceptP

\* A bulk insert failed.
InsertFail ==
    /\ pc \in TableSet
    /\ StatementFails(pc)

\* COMMIT succeeded: the transaction's rows are durable; submit() clears
\* the buffers and reports the pre-flush header count (sink.ts:113-123).
CommitOk ==
    /\ pc = "COMMIT"
    /\ committed' = [t \in TableSet |-> committed[t] \o pending[t]]
    /\ pending' = NoRows
    /\ inserts' = SubmitBuffers(inserts, TRUE)
    /\ progress' = progress + Size("block", atSubmit["block"])
    /\ result' = "ok"
    /\ pc' = "idle"
    /\ UNCHANGED <<chain, nblocks, last, stmts, caught, thrown, atSubmit, dbErrors>>
    /\ UNCHANGED exceptP

\* COMMIT failed: nothing of the transaction is durable.
CommitFail ==
    /\ pc = "COMMIT"
    /\ StatementFails("COMMIT")

\* The reply to ROLLBACK, success or failure: sink.ts:133-134.
RollbackReply(rollbackFailed) ==
    /\ pc = "ROLLBACK"
    /\ dbErrors' = IF rollbackFailed THEN Append(dbErrors, ErrorOf("ROLLBACK"))
                   ELSE dbErrors
    /\ thrown' = TxRethrow(caught, rollbackFailed)
    /\ result' = "error"
    /\ caught' = "none"
    /\ inserts' = SubmitBuffers(inserts, FALSE)
    /\ pc' = "idle"
    /\ UNCHANGED <<chain, nblocks, last, stmts, atSubmit, pending, committed, progress>>
    /\ UNCHANGED exceptP

RollbackOk == RollbackReply(FALSE)

RollbackFail == RollbackReply(TRUE)

WriteLast == Write(TRUE)

WriteMore == Write(FALSE)

PNext ==
    \/ WriteLast
    \/ WriteMore
    \/ BeginOk
    \/ BeginFail
    \/ InsertOk
    \/ InsertFail
    \/ CommitOk
    \/ CommitFail
    \/ RollbackOk
    \/ RollbackFail

Spec == PInit /\ [][PNext]_vars

\* ------------------------------------------------- PostgresSink: claims
IsPrefix(a, b) == Len(a) <= Len(b) /\ SubSeq(b, 1, Len(a)) = a

Returned == pc = "idle" /\ result \in {"ok", "error"}

HeaderSize(ins) == Size("block", ins["block"])

\* C1: a write whose block is not last and that leaves at most 20 headers in
\* the header buffer returns without a flush: it sends no statement (no
\* BEGIN, insert or COMMIT), changes nothing on the connection, and every
\* buffer keeps all the rows it had, so no buffer shrinks.
C1_NoFlushBelowThreshold ==
    [][(/\ nblocks' = nblocks + 1
        /\ ~last'
        /\ HeaderSize(inserts') <= FlushThreshold)
       => (/\ pc' = "idle"
           /\ result' = "ok"
           /\ stmts' = <<>>
           /\ pending' = pending
           /\ committed' = committed
           /\ \A t \in TableSet :
                /\ Size(t, inserts'[t]) >= Size(t, inserts[t])
                /\ \A c \in ColumnNames(t) : IsPrefix(inserts[t][c], inserts'[t][c]))]_vars

\* C1 witness: twenty headers are buffered, with rows of other entities, and
\* the write that appended the twentieth returned without sending anything.
C1_Witness ==
    /\ Returned
    /\ ~last
    /\ result = "ok"
    /\ stmts = <<>>
    /\ HeaderSize(inserts) = FlushThreshold
    /\ nblocks = FlushThreshold
    /\ Size("extrinsic", inserts["extrinsic"]) > 0

\* The tables whose buffer held rows when submit() began, in the order
\* metadata, block, extrinsic, call, event, warning.
FlushOrder == <<"metadata", "block", "extrinsic", "call", "event", "warning">>

NonEmptyAtSubmit == SelectSeq(FlushOrder, LAMBDA t : Size(t, atSubmit[t]) > 0)

Sent(statement) == \E i \in 1..Len(stmts) : stmts[i] = statement

\* C2: a write whose block is last has sent BEGIN by the time it returns,
\* whatever the buffer sizes; no insert is ever sent for a buffer of 0 rows,
\* the only errors are those of statements that were sent, and when the
\* write succeeds every non-empty buffer was inserted and COMMIT sent.
C2_LastAlwaysFlushes ==
    /\ (last /\ result # "none") =>
            /\ stmts # <<>>
            /\ stmts[1] = "BEGIN"
            /\ \A t \in TableSet : Size(t, atSubmit[t]) = 0 => ~Sent(t)
            /\ \A i \in 1..Len(dbErrors) : Sent(dbErrors[i])
    /\ (last /\ Returned /\ result = "ok") =>
            /\ \A t \in TableSet : Size(t, atSubmit[t]) > 0 => Sent(t)
            /\ Sent("COMMIT")
            /\ dbErrors = <<>>

\* C2 witness: a last block flushed alone, far below the threshold, with an
\* empty metadata, event and warning buffer and rows in the others.
C2_Witness ==
    /\ last
    /\ Returned
    /\ result = "ok"
    /\ HeaderSize(atSubmit) = 1
    /\ Size("metadata", atSubmit["metadata"]) = 0
    /\ Size("event", atSubmit["event"]) = 0
    /\ Size("extrinsic", atSubmit["extrinsic"]) = 1
    /\ stmts = <<"BEGIN", "block", "extrinsic", "call", "COMMIT">>

\* C3: when a write that flushed returns successfully, every column of every
\* one of the six buffers is empty and every size is 0.
C3_EmptyAfterSuccessfulFlush ==
    (Returned /\ result = "ok" /\ stmts # <<>>) =>
        \A t \in TableSet :
            /\ Size(t, inserts[t]) = 0
            /\ \A c \in ColumnNames(t) : inserts[t][c] = <<>>

\* C3 witness: a successful flush of six non-empty buffers has returned.
C3_Witness ==
    /\ Returned
    /\ result = "ok"
    /\ Sent("COMMIT")
    /\ \A t \in TableSet : Size(t, atSubmit[t]) > 0
    /\ HeaderSize(atSubmit) > 1

\* C4: from the moment a statement of a flush fails, and when the write has
\* raised the error, the six buffers hold exactly what they held when the
\* flush began.
C4_BuffersKeptOnFailure ==
    (dbErrors # <<>> \/ result = "error") => inserts = atSubmit

\* C4 witness: a flush of six non-empty buffers failed at COMMIT and the write
\* has raised the error.
C4_Witness ==
    /\ Returned
    /\ result = "error"
    /\ dbErrors[1] = "COMMIT"
    /\ \A t \in TableSet : Size(t, inserts[t]) > 0
    /\ HeaderSize(inserts) > 1

\* C5: the statements of a flush are always a prefix of BEGIN, the inserts
\* of the non-empty buffers in the order metadata, block, extrinsic, call,
\* event, warning, COMMIT; a failure ends them, followed by ROLLBACK only;
\* nothing follows a failed BEGIN; a successful flush sent all of them.
C5_StatementOrder ==
    LET full == <<"BEGIN">> \o NonEmptyAtSubmit \o <<"COMMIT">>
        n == Len(stmts)
        body == IF n > 0 /\ stmts[n] = "ROLLBACK" THEN SubSeq(stmts, 1, n - 1) ELSE stmts
    IN /\ IsPrefix(body, full)
       /\ (n > 0 /\ stmts[n] = "ROLLBACK") => (n >= 3 /\ dbErrors # <<>>)
       /\ (dbErrors # <<>> /\ dbErrors[1] = "BEGIN") => stmts = <<"BEGIN">>
       /\ (Returned /\ result = "ok" /\ n > 0) => stmts = full

\* C5 witness: a successful flush that skipped empty buffers between two
\* inserts, the rows having been appended over several writes.
C5_Witness ==
    /\ Returned
    /\ result = "ok"
    /\ HeaderSize(atSubmit) > 1
    /\ stmts = <<"BEGIN", "metadata", "block", "extrinsic", "call", "event", "warning",
                 "COMMIT">>

\* C6 as stated: whenever a write has raised the error of a failed flush, a
\* ROLLBACK was sent before.
C6_RollbackOnAnyFailure ==
    (Returned /\ result = "error") => Sent("ROLLBACK")

\* C6 amended: when a bulk insert or COMMIT fails, ROLLBACK is the last
\* statement sent before the write raises the error, and it is sent once;
\* when BEGIN fails the error is raised with no ROLLBACK sent.
C6_RollbackInsideTry ==
    (Returned /\ result = "error") =>
        IF dbErrors[1] = "BEGIN"
        THEN stmts = <<"BEGIN">>
        ELSE /\ stmts[Len(stmts)] = "ROLLBACK"
             /\ \A i \in 1..(Len(stmts) - 1) : stmts[i] # "ROLLBACK"

\* C6 witness: an insert failed in the middle of a flush, ROLLBACK was sent
\* and the write has raised the error.
C6_Witness ==
    /\ Returned
    /\ result = "error"
    /\ dbErrors[1] = "extrinsic"
    /\ stmts[Len(stmts)] = "ROLLBACK"

\* C7: the error a write raises is the error of the first statement that
\* failed, never that of ROLLBACK, also when ROLLBACK failed; and a write
\* during which a statement failed never returns successfully.
C7_OriginalErrorRaised ==
    /\ (Returned /\ result = "error") =>
            /\ dbErrors # <<>>
            /\ thrown = dbErrors[1]
            /\ thrown # "ROLLBACK"
    /\ (Returned /\ dbErrors # <<>>) => result = "error"

\* C7 witness: COMMIT failed, then ROLLBACK failed, and the write has raised
\* the error of COMMIT.
C7_Witness ==
    /\ Returned
    /\ result = "error"
    /\ dbErrors = <<"COMMIT", "ROLLBACK">>
    /\ thrown = "COMMIT"

\* The rows table t receives from blocks 1..n, in arrival order.
RECURSIVE RowsUpTo(_, _)
RowsUpTo(t, n) ==
    IF n = 0 THEN <<>>
    ELSE RowsUpTo(t, n - 1) \o
         Rows(n, CASE t = "metadata"  -> IF ShapeOf(n).metadata THEN 1 ELSE 0
                   [] t = "block"     -> 1
                   [] t = "extrinsic" -> ShapeOf(n).extrinsics
                   [] t = "call"      -> ShapeOf(n).calls
                   [] t = "event"     -> ShapeOf(n).events
                   [] t = "warning"   -> IF ShapeOf(n).warnings = "one" THEN 1 ELSE 0)

\* C8: when a write whose block is last returns successfully, the committed
\* rows of every table are exactly the rows of all blocks written so far,
\* each once and in arrival order, and nothing is left in a buffer or in an
\* open transaction.
C8_AllCommittedOnceAfterLast ==
    (last /\ Returned /\ result = "ok") =>
        /\ \A t \in TableSet :
            /\ committed[t] = RowsUpTo(t, nblocks)
            /\ Size(t, inserts[t]) = 0
            /\ pending[t] = <<>>
        /\ progress = nblocks

\* C8 witness: the flush of the last block carried more headers than a
\* threshold flush can, so it holds blocks kept by an earlier failed flush.
C8_Witness ==
    /\ last
    /\ Returned
    /\ result = "ok"
    /\ HeaderSize(atSubmit) > FlushThreshold + 1
    /\ Len(committed["block"]) = nblocks

\* ------------------------------------------------------- WritableSink
\* Variant of close: the off() calls remove nothing (the listeners stay).
closeKeepsListeners(ls) == ls

\* WritableSink.close: both listeners are removed from the stream.
close(ls) == ls \ {"error", "drain"}

\* Variant of WriteFailsFast: write() does not look at the cached error.
WriteNeverFailsFast(err) == FALSE

\* sink.ts:231: `if (this.error) throw this.error`.
WriteFailsFast(err) == err # "none"

\* Variant of ReportedRows: the trackers are told only when the write did
\* not wait (the report is in the else branch of `if (wait)`).
ReportedRowsUnlessWaited(waited) == IF waited THEN 0 ELSE 1

\* sink.ts:238-242: the count passed to speed.stop and progress.inc when
\* write() reaches its end, after a wait or without one.
ReportedRows(waited) == 1

\* Variant of DrainAssert: drain() has no assertion.
DrainAssertMissing(handle) == TRUE

\* sink.ts:246: `assert(this.drainHandle == null)`.
DrainAssert(handle) == handle = 0

\* The two chunks a write enqueues: the serialized block and the newline.
Chunks(c) == <<[call |-> c, chunk |-> "json"], [call |-> c, chunk |-> "newline"]>>

\* WritableSink.write(block) up to its first await.  `accepted` is the value
\* writable.write('\n') returns: FALSE when the stream is saturated.
WritableWrite(c, accepted) ==
    /\ wpc[c] = "new"
    /\ \A d \in Calls : d < c => wpc[d] # "new"
    /\ IF WriteFailsFast(error)
       THEN /\ wpc' = [wpc EXCEPT ![c] = "failed"]
            /\ wthrown' = [wthrown EXCEPT ![c] = error]
            /\ UNCHANGED <<channel, saturated, drainHandle, promise, reported>>
       ELSE /\ channel' = channel \o Chunks(c)
            /\ saturated' = [saturated EXCEPT ![c] = ~accepted]
            /\ IF accepted
               THEN /\ reported' = [reported EXCEPT ![c] = @ + ReportedRows(FALSE)]
                    /\ wpc' = [wpc EXCEPT ![c] = "done"]
                    /\ UNCHANGED <<drainHandle, promise, wthrown>>
               ELSE IF DrainAssert(drainHandle)
               THEN /\ drainHandle' = c
                    /\ promise' = [promise EXCEPT ![c] = "pending"]
                    /\ wpc' = [wpc EXCEPT ![c] = "waiting"]
                    /\ UNCHANGED <<wthrown, reported>>
               ELSE /\ wpc' = [wpc EXCEPT ![c] = "failed"]
                    /\ wthrown' = [wthrown EXCEPT ![c] = "AssertionError"]
                    /\ UNCHANGED <<drainHandle, promise, reported>>
    /\ UNCHANGED <<listeners, error, emitted, closes>>
    /\ UNCHANGED exceptW

WriteAccepted == \E c \in Calls : WritableWrite(c, TRUE)

WriteSaturated == \E c \in Calls : WritableWrite(c, FALSE)

\* WritableSink.onDrain: resolve and forget the waiter, if there is one.
onDrain ==
    /\ IF drainHandle # 0
       THEN /\ promise' = [promise EXCEPT ![drainHandle] = "resolved"]
            /\ drainHandle' = 0
       ELSE UNCHANGED <<promise, drainHandle>>
    /\ UNCHANGED <<listeners, error>>

\* WritableSink.onError: close(), cache the error, reject the waiter.
onError(err) ==
    /\ listeners' = close(listeners)
    /\ error' = err
    /\ IF drainHandle # 0
       THEN /\ promise' = [promise EXCEPT ![drainHandle] = err]
            /\ drainHandle' = 0
       ELSE UNCHANGED <<promise, drainHandle>>

\* The stream emits 'drain': onDrain runs if it is still a listener.
StreamDrain ==
    /\ Len(emitted) < MaxEvents
    /\ emitted' = Append(emitted, "drain")
    /\ IF "drain" \in listeners
       THEN onDrain
       ELSE UNCHANGED <<listeners, error, promise, drainHandle>>
    /\ UNCHANGED <<wpc, wthrown, saturated, reported, channel, closes>>
    /\ UNCHANGED exceptW

\* The stream emits 'error': onError runs if it is still a listener.
StreamError ==
    \E err \in Errors :
        /\ Len(emitted) < MaxEvents
        /\ emitted' = Append(emitted, err)
        /\ IF "error" \in listeners
           THEN onError(err)
           ELSE UNCHANGED <<listeners, error, promise, drainHandle>>
        /\ UNCHANGED <<wpc, wthrown, saturated, reported, channel, closes>>
        /\ UNCHANGED exceptW

\* sink.ts:236-242: write() resumes after `await this.drain()`: it reports
\* one row when the promise was resolved and throws when it was rejected.
Continue(c) ==
    /\ wpc[c] = "waiting"
    /\ promise[c] \notin {"none", "pending"}
    /\ IF promise[c] = "resolved"
       THEN /\ reported' = [reported EXCEPT ![c] = @ + ReportedRows(TRUE)]
            /\ wpc' = [wpc EXCEPT ![c] = "done"]
            /\ UNCHANGED wthrown
       ELSE /\ wthrown' = [wthrown EXCEPT ![c] = promise[c]]
            /\ wpc' = [wpc EXCEPT ![c] = "failed"]
            /\ UNCHANGED reported
    /\ UNCHANGED <<listeners, error, drainHandle, promise, saturated, channel, emitted,
                   closes>>
    /\ UNCHANGED exceptW

WriteResumes == \E c \in Calls : Continue(c)

\* The owner of the sink calls close().
Close ==
    /\ closes < MaxCloses
    /\ closes' = closes + 1
    /\ listeners' = close(listeners)
    /\ UNCHANGED <<error, drainHandle, wpc, promise, wthrown, saturated, reported,
                   channel, emitted>>
    /\ UNCHANGED exceptW

WInit ==
    /\ PConstructed([i \in 1..CycleLen |-> Bare])
    /\ WConstructed
    /\ IConstructed("metadata")
    /\ SConstructed(Undefined, Undefined)
    /\ HConstructed(NoHandlers, NoHandlers, NoHandlers)

WNext ==
    \/ WriteAccepted
    \/ WriteSaturated
    \/ StreamDrain
    \/ StreamError
    \/ WriteResumes
    \/ Close

SpecW == WInit /\ [][WNext]_vars

\* A resumed async function runs to its end: the continuation of a settled
\* await is a queued microtask.
FairSpecW == SpecW /\ \A c \in Calls : WF_vars(Continue(c))

\* ------------------------------------------------- WritableSink: claims
DrainDelivered == \E i \in 1..Len(emitted) : emitted[i] = "drain"

\* C9: a write on which the stream reported saturation does not complete
\* and reports no row before a drain notification has resolved its wait;
\* no write reports more than one row and a completed write has reported
\* exactly one; and once the drain has resolved its wait, the write does
\* complete successfully with exactly one row reported.
C9_BackpressuredWrite ==
    /\ [](\A c \in Calls :
            /\ (saturated[c] /\ promise[c] # "resolved") =>
                    (wpc[c] # "done" /\ reported[c] = 0)
            /\ promise[c] = "resolved" => (saturated[c] /\ DrainDelivered)
            /\ reported[c] <= 1
            /\ wpc[c] = "done" => (reported[c] = 1 /\ wthrown[c] = "none")
            /\ wpc[c] = "waiting" => reported[c] = 0)
    /\ \A c \in Calls :
            (promise[c] = "resolved") ~> (wpc[c] = "done" /\ reported[c] = 1)

\* C9 witness: the first write met saturation, was resolved by a drain
\* notification, has completed and has reported one row.
C9_Witness ==
    /\ saturated[1]
    /\ promise[1] = "resolved"
    /\ wpc[1] = "done"
    /\ reported[1] = 1
    /\ emitted = <<"drain">>

\* C10: the cached error, once set, never changes; the step that sets it
\* rejects the write suspended on drain with that error and leaves no
\* waiter, and the rejected write fails with it without reporting a row;
\* every write called while an error is cached fails at once with the
\* cached error, enqueues nothing and reports nothing.
C10_ChannelFailurePermanent ==
    [][/\ error # "none" => error' = error
       /\ (error = "none" /\ error' # "none") =>
            /\ drainHandle' = 0
            /\ drainHandle # 0 => promise'[drainHandle] = error'
       /\ \A c \in Calls :
            /\ promise'[c] \in Errors => promise'[c] = error'
            /\ (wpc[c] = "waiting" /\ promise[c] \in Errors /\ wpc'[c] # "waiting") =>
                    (wpc'[c] = "failed" /\ wthrown'[c] = error /\ reported'[c] = 0)
            /\ (wpc[c] = "new" /\ wpc'[c] # "new" /\ error # "none") =>
                    /\ wpc'[c] = "failed"
                    /\ wthrown'[c] = error
                    /\ channel' = channel
                    /\ reported' = reported
                    /\ promise' = promise
                    /\ drainHandle' = drainHandle]_vars

\* C10 witness: the first write was suspended when E1 arrived and failed
\* with E1; the stream then emitted E2; the second write failed with E1 and
\* the channel holds the chunks of the first write only.
C10_Witness ==
    /\ error = "E1"
    /\ emitted = <<"E1", "E2">>
    /\ saturated[1]
    /\ wpc[1] = "failed"
    /\ wthrown[1] = "E1"
    /\ wpc[2] = "failed"
    /\ wthrown[2] = "E1"
    /\ reported[1] = 0
    /\ reported[2] = 0
    /\ channel = Chunks(1)

\* The writes suspended on drain: awaiting a promise not yet settled.
Suspended == {c \in Calls : wpc[c] = "waiting" /\ promise[c] = "pending"}

\* C11: at most one write is suspended on drain, and it is the one
\* drainHandle names; a write that meets saturation while another write is
\* still suspended fails at once with an AssertionError, which is none of
\* the channel's errors and is not cached as one, and the waiter, its
\* promise and the rows reported are left as they were.
C11_SingleWaiter ==
    [][/\ Cardinality(Suspended') <= 1
       /\ Suspended' = IF drainHandle' = 0 THEN {} ELSE {drainHandle'}
       /\ \A c \in Calls :
            (wpc[c] = "new" /\ wpc'[c] # "new" /\ saturated'[c] /\ Suspended # {}) =>
                /\ wpc'[c] = "failed"
                /\ wthrown'[c] = "AssertionError"
                /\ wthrown'[c] \notin Errors
                /\ error' = error
                /\ drainHandle' = drainHandle
                /\ promise' = promise
                /\ Suspended' = Suspended
                /\ reported' = reported]_vars

\* C11 witness: the first write is suspended on drain and still is after a
\* second write met saturation and stopped with the AssertionError.
C11_Witness ==
    /\ Suspended = {1}
    /\ drainHandle = 1
    /\ saturated[2]
    /\ wpc[2] = "failed"
    /\ wthrown[2] = "AssertionError"
    /\ error = "none"

\* What close() and the handlers of the stream act on.
SinkState == <<listeners, error, drainHandle, wpc, promise, wthrown, reported>>

\* C12: once close() has been called the sink listens to nothing; a drain
\* or error notification emitted after it changes nothing in the sink (the
\* cached error stays as it is, the drain waiter stays pending), and a
\* further close() changes nothing either.
C12_CloseDetaches ==
    [][/\ closes' >= 1 => listeners' = {}
       /\ (closes >= 1 /\ emitted' # emitted) => SinkState' = SinkState
       /\ (closes >= 1 /\ closes' # closes) => SinkState' = SinkState]_vars

\* C12 witness: close() was called twice; the stream has emitted an error
\* and then a drain, the error was not cached, and the write that met
\* saturation before the drain is still suspended.
C12_Witness ==
    /\ closes = 2
    /\ listeners = {}
    /\ emitted = <<"E1", "drain">>
    /\ error = "none"
    /\ Suspended = {1}
    /\ drainHandle = 1

\* ------------------------------------------- PostgresSink: buffer bound
\* C19 as stated: the header buffer never holds more than 21 headers and no
\* transaction inserts more than 21 block rows, also when flushes fail.
C19_AtMostThresholdPlusOne ==
    /\ HeaderSize(inserts) <= FlushThreshold + 1
    /\ Len(pending["block"]) <= FlushThreshold + 1

\* C19 amended: a write that does not directly follow a failed write leaves
\* at most 21 headers in the header buffer; whenever more than 20 headers
\* are buffered the current write has attempted a flush; a write that
\* returns successfully leaves at most 20 headers; a transaction never
\* holds more block rows than the header buffer.  The buffer exceeds 21
\* only through writes that follow a failed flush, whose rows are kept.
C19_BoundedUnlessFlushFails ==
    [][/\ (nblocks' = nblocks + 1 /\ result # "error") =>
                HeaderSize(inserts') <= FlushThreshold + 1
       /\ HeaderSize(inserts') > FlushThreshold => stmts' # <<>>
       /\ (pc' = "idle" /\ result' = "ok") => HeaderSize(inserts') <= FlushThreshold
       /\ Len(pending'["block"]) <= HeaderSize(inserts')
       /\ HeaderSize(inserts') > FlushThreshold + 1 =>
                (nblocks' = nblocks \/ result = "error")]_vars

\* C19 witness: a flush triggered by the threshold alone has committed 21
\* block rows and the write has returned.
C19_Witness ==
    /\ Returned
    /\ result = "ok"
    /\ ~last
    /\ Sent("COMMIT")
    /\ HeaderSize(atSubmit) = FlushThreshold + 1
    /\ Len(committed["block"]) = FlushThreshold + 1
    /\ HeaderSize(inserts) = 0

\* ------------------------------------------------------ a single Insert
\* The positions of the columns of `table` that have a `map`, the only
\* ones whose evaluation in add() can throw.
MappedPositions(table) ==
    {i \in 1..Len(Mapping(table)) : ColumnMap(table, Mapping(table)[i]) # "none"}

\* Insert.add when def.map throws for the column at position `at`: the
\* for-in loop has pushed the values of the columns before it and the
\* exception leaves the loop (sink.ts:169-172).
InsertAddThrows(table, columns, row, at) ==
    [name \in ColumnNames(table) |->
        IF \E i \in 1..(at - 1) : Mapping(table)[i] = name
        THEN Append(columns[name], Cell(table, name, row))
        ELSE columns[name]]

\* Object.values(this.columns): the arrays in column order (sink.ts:165).
ColumnValues(table, columns) ==
    [i \in 1..Len(Mapping(table)) |-> columns[Mapping(table)[i]]]

\* add(row) returns normally.
IAdd ==
    /\ iadds < MaxAdds
    /\ iadds' = iadds + 1
    /\ icolumns' = InsertAdd(itable, icolumns, iadds + 1)
    /\ UNCHANGED <<itable, isent>>
    /\ UNCHANGED exceptI

\* add(row) throws out of the map of one of its columns.
IAddThrows ==
    \E at \in MappedPositions(itable) :
        /\ iadds < MaxAdds
        /\ iadds' = iadds + 1
        /\ icolumns' = InsertAddThrows(itable, icolumns, iadds + 1, at)
        /\ UNCHANGED <<itable, isent>>
        /\ UNCHANGED exceptI

\* addMany(rows) with two rows returns normally.
IAddMany ==
    /\ iadds + 2 <= MaxAdds
    /\ iadds' = iadds + 2
    /\ icolumns' = InsertAddMany(itable, icolumns, <<iadds + 1, iadds + 2>>)
    /\ UNCHANGED <<itable, isent>>
    /\ UNCHANGED exceptI

\* clear().
IClear ==
    /\ icolumns # InsertClear(itable)
    /\ icolumns' = InsertClear(itable)
    /\ UNCHANGED <<itable, iadds, isent>>
    /\ UNCHANGED exceptI

\* query(db): the statement is sent unless size is 0; the buffer is kept.
IQuery ==
    /\ QueryIssues(itable, icolumns)
    /\ isent' = ColumnValues(itable, icolumns)
    /\ isent' # isent
    /\ UNCHANGED <<itable, icolumns, iadds>>
    /\ UNCHANGED exceptI

IInit ==
    /\ PConstructed([i \in 1..CycleLen |-> Bare])
    /\ WConstructed
    /\ \E table \in TableSet : IConstructed(table)
    /\ SConstructed(Undefined, Undefined)
    /\ HConstructed(NoHandlers, NoHandlers, NoHandlers)

INext ==
    \/ IAdd
    \/ IAddThrows
    \/ IAddMany
    \/ IClear
    \/ IQuery

SpecI == IInit /\ [][INext]_vars

\* C18: all the per-column sequences of an Insert have the same length and
\* size is that length, after any sequence of add, addMany, clear and
\* query, also after an add whose per-column transform threw part-way.
C18_RowAlignment ==
    \A name \in ColumnNames(itable) : Len(icolumns[name]) = Size(itable, icolumns)

\* ------------------------------------------ mergeContextRequests, applied
\* mergeContextRequests(a, b).
MergeAB ==
    /\ spc = "start"
    /\ sab' = mergeContextRequests(sa, sb)
    /\ spc' = "ab"
    /\ UNCHANGED <<sa, sb, sba, saa, smerges>>
    /\ UNCHANGED exceptS

\* mergeContextRequests(b, a).
MergeBA ==
    /\ spc = "ab"
    /\ sba' = mergeContextRequests(sb, sa)
    /\ spc' = "ba"
    /\ UNCHANGED <<sa, sb, sab, saa, smerges>>
    /\ UNCHANGED exceptS

\* mergeContextRequests(a, a), then the result merged with a again.
MergeAA ==
    /\ spc = "ba"
    /\ smerges < MaxSelfMerges
    /\ saa' = mergeContextRequests(saa, sa)
    /\ smerges' = smerges + 1
    /\ UNCHANGED <<sa, sb, sab, sba, spc>>
    /\ UNCHANGED exceptS

SInit ==
    /\ PConstructed([i \in 1..CycleLen |-> Bare])
    /\ WConstructed
    /\ IConstructed("metadata")
    /\ \E a, b \in ContextRequests \cup {Undefined} : SConstructed(a, b)
    /\ HConstructed(NoHandlers, NoHandlers, NoHandlers)

SNext ==
    \/ MergeAB
    \/ MergeBA
    \/ MergeAA

SpecS == SInit /\ [][SNext]_vars

\* --------------------------------------------- mergeDataHandlers, applied
\* mergeDataHandlers(a, b).
MergeHandlersAB ==
    /\ hpc = "start"
    /\ regAB' = mergeDataHandlers(regA, regB)
    /\ hpc' = "ab"
    /\ UNCHANGED <<regA, regB, regC, regBA, regBC, regABThenC, regAThenBC>>
    /\ UNCHANGED exceptH

\* mergeDataHandlers(b, a).
MergeHandlersBA ==
    /\ hpc = "ab"
    /\ regBA' = mergeDataHandlers(regB, regA)
    /\ hpc' = "ba"
    /\ UNCHANGED <<regA, regB, regC, regAB, regBC, regABThenC, regAThenBC>>
    /\ UNCHANGED exceptH

\* mergeDataHandlers(mergeDataHandlers(a, b), c).
MergeHandlersABThenC ==
    /\ hpc = "ba"
    /\ regABThenC' = mergeDataHandlers(regAB, regC)
    /\ hpc' = "ab-c"
    /\ UNCHANGED <<regA, regB, regC, regAB, regBA, regBC, regAThenBC>>
    /\ UNCHANGED exceptH

\* mergeDataHandlers(b, c).
MergeHandlersBC ==
    /\ hpc = "ab-c"
    /\ regBC' = mergeDataHandlers(regB, regC)
    /\ hpc' = "bc"
    /\ UNCHANGED <<regA, regB, regC, regAB, regBA, regABThenC, regAThenBC>>
    /\ UNCHANGED exceptH

\* mergeDataHandlers(a, mergeDataHandlers(b, c)).
MergeHandlersAThenBC ==
    /\ hpc = "bc"
    /\ regAThenBC' = mergeDataHandlers(regA, regBC)
    /\ hpc' = "a-bc"
    /\ UNCHANGED <<regA, regB, regC, regAB, regBA, regBC, regABThenC>>
    /\ UNCHANGED exceptH

HInit ==
    /\ PConstructed([i \in 1..CycleLen |-> Bare])
    /\ WConstructed
    /\ IConstructed("metadata")
    /\ SConstructed(Undefined, Undefined)
    /\ \E da, db, dc \in DataChoices : \E la, lb \in AddressChoices :
          HConstructed(DataHandlers("a", da, la), DataHandlers("b", db, lb),
                       DataHandlers("c", dc, {"x"}))

HNext ==
    \/ MergeHandlersAB
    \/ MergeHandlersBA
    \/ MergeHandlersABThenC
    \/ MergeHandlersBC
    \/ MergeHandlersAThenBC

SpecH == HInit /\ [][HNext]_vars

\* The field pairs (fa, fb) the merge has met under the same key: the fields
\* of the two requests, and the fields of two nested objects under one key.
\* Each comes with the field the result holds there.
FieldsMet ==
    IF IsNull(sa) \/ IsNull(sb) \/ spc = "start" THEN {}
    ELSE {<<Lookup(sa.m, k), Lookup(sb.m, k), Lookup(sab.m, k)>> : k \in Keys}
         \cup {<<Lookup(Lookup(sa.m, k).m, j), Lookup(Lookup(sb.m, k).m, j),
                 Lookup(Lookup(sab.m, k).m, j)>> :
                 <<k, j>> \in {p \in Keys \X Keys :
                     Lookup(sa.m, p[1]).kind = "map" /\ Lookup(sb.m, p[1]).kind = "map"}}

\* C13: in the merge of two fields, true on either side gives true, an absent
\* side gives the other side unchanged, and two absent sides leave the key
\* without a selection; the same holds of merge applied to the pair directly.
C13_FieldMerge ==
    \A f \in FieldsMet :
        /\ (f[1] = True \/ f[2] = True) => f[3] = True /\ merge(f[1], f[2]) = True
        /\ (IsNull(f[1]) /\ f[2] # True) => f[3] = f[2] /\ merge(f[1], f[2]) = f[2]
        /\ (IsNull(f[2]) /\ f[1] # True) => f[3] = f[1] /\ merge(f[1], f[2]) = f[1]
        /\ (IsNull(f[1]) /\ IsNull(f[2])) => IsNull(f[3])

\* C13 witness: one merge met true against an object under x and a field set
\* to undefined against an object under y.
C13_Witness ==
    /\ spc = "ba"
    /\ DOMAIN sa.m = Keys /\ DOMAIN sb.m = Keys
    /\ sa.m["x"] = True /\ sb.m["x"].kind = "map" /\ sb.m["x"].m # NoMap
    /\ sab.m["x"] = True
    /\ IsNull(sa.m["y"]) /\ sb.m["y"].kind = "map" /\ sb.m["y"].m # NoMap
    /\ sab.m["y"] = sb.m["y"]

\* C14: mergeContextRequests(a, b) and mergeContextRequests(b, a) are the same
\* mapping, and merging a with itself, any number of times, gives a.
C14_CommutativeIdempotent ==
    /\ spc = "ba" => sab = sba
    /\ saa = sa

\* C14 witness: two different nested requests with different key sets, merged
\* both ways into a request that is neither, and a merged with itself
\* MaxSelfMerges times.
C14_Witness ==
    /\ spc = "ba" /\ smerges = MaxSelfMerges
    /\ ~IsNull(sa) /\ ~IsNull(sb)
    /\ DOMAIN sa.m = {"x"} /\ DOMAIN sb.m = Keys
    /\ sa.m["x"].kind = "map" /\ sb.m["x"].kind = "map" /\ sa.m["x"] # sb.m["x"]
    /\ sab # sa /\ sab # sb /\ sab = sba /\ sab.m["x"] # sa.m["x"] /\ sab.m["x"] # sb.m["x"]

\* r is the field merge of x and y: true if either is true, the other one if
\* either is absent, and else the key-wise field merge over the union of keys.
RECURSIVE IsFieldMerge(_, _, _)
IsFieldMerge(x, y, r) ==
    IF x = True \/ y = True THEN r = True
    ELSE IF IsNull(x) THEN r = y
    ELSE IF IsNull(y) THEN r = x
    ELSE /\ r.kind = "map"
         /\ DOMAIN r.m = DOMAIN x.m \cup DOMAIN y.m
         /\ \A k \in DOMAIN r.m : IsFieldMerge(Lookup(x.m, k), Lookup(y.m, k), r.m[k])

\* C15: the merge of two requests is absent when either is absent; else its
\* keys are those of a and of b, a key of one side only keeps its value and a
\* key of both sides holds the field merge of the two values.
C15_TopLevelMerge ==
    spc # "start" =>
        IF IsNull(sa) \/ IsNull(sb) THEN sab = Undefined
        ELSE /\ sab.kind = "map"
             /\ DOMAIN sab.m = DOMAIN sa.m \cup DOMAIN sb.m
             /\ \A k \in DOMAIN sa.m \ DOMAIN sb.m : sab.m[k] = sa.m[k]
             /\ \A k \in DOMAIN sb.m \ DOMAIN sa.m : sab.m[k] = sb.m[k]
             /\ \A k \in DOMAIN sa.m \cap DOMAIN sb.m : IsFieldMerge(sa.m[k], sb.m[k], sab.m[k])

\* C15 witness: {x: true} merged with an absent request is absent.
C15_Witness ==
    /\ spc = "ab"
    /\ sa = Map([k \in {"x"} |-> True])
    /\ sb = Undefined
    /\ sab = Undefined

\* The value a request holds at a path of field names.
RECURSIVE At(_, _)
At(t, path) ==
    IF path = <<>> THEN t
    ELSE IF t.kind = "map" THEN At(Lookup(t.m, Head(path)), Tail(path))
    ELSE Undefined

\* The paths of one to three field names.
Paths == [1..1 -> Keys] \cup [1..2 -> Keys] \cup [1..3 -> Keys]

\* A path is selected when the request holds true at it or at a prefix of it.
Selected(t, path) == \E i \in 1..Len(path) : At(t, SubSeq(path, 1, i)) = True

\* C20: for present a and b, the merged request selects exactly the paths
\* that a or b selects.
C20_NoRequirementDropped ==
    (spc # "start" /\ ~IsNull(sa) /\ ~IsNull(sb)) =>
        \A p \in Paths : Selected(sab, p) <=> (Selected(sa, p) \/ Selected(sb, p))

\* C20 witness: a selects x.x only, b selects x.y and y, and the merge
\* selects all three without selecting x as a whole.
C20_Witness ==
    /\ spc = "ab" /\ ~IsNull(sa) /\ ~IsNull(sb)
    /\ Selected(sa, <<"x", "x">>) /\ ~Selected(sa, <<"x", "y">>) /\ ~Selected(sa, <<"y">>)
    /\ Selected(sb, <<"x", "y">>) /\ ~Selected(sb, <<"x", "x">>) /\ Selected(sb, <<"y">>)
    /\ Selected(sab, <<"x", "x">>) /\ Selected(sab, <<"x", "y">>) /\ Selected(sab, <<"y", "x">>)
    /\ At(sab, <<"x">>) # True

\* The categories of a registry that map a key to a HandlerList.
ListCategories == {"events", "calls", "contractsContractEmitted"}

\* r holds, in every list, the handlers of a followed by those of b.
AThenB(a, b, r) ==
    /\ r.pre = a.pre \o b.pre
    /\ r.post = a.post \o b.post
    /\ \A cat \in ListCategories :
        /\ DOMAIN r[cat] = DOMAIN a[cat] \cup DOMAIN b[cat]
        /\ \A k \in DOMAIN a[cat] \cap DOMAIN b[cat] :
              r[cat][k].handlers = a[cat][k].handlers \o b[cat][k].handlers
        /\ \A k \in DOMAIN a[cat] \ DOMAIN b[cat] : r[cat][k] = a[cat][k]
        /\ \A k \in DOMAIN b[cat] \ DOMAIN a[cat] : r[cat][k] = b[cat][k]
    /\ DOMAIN r.evmLogs = DOMAIN a.evmLogs \cup DOMAIN b.evmLogs
    /\ \A k \in DOMAIN a.evmLogs \cap DOMAIN b.evmLogs :
          r.evmLogs[k].items = a.evmLogs[k].items \o b.evmLogs[k].items
    /\ \A k \in DOMAIN a.evmLogs \ DOMAIN b.evmLogs : r.evmLogs[k] = a.evmLogs[k]
    /\ \A k \in DOMAIN b.evmLogs \ DOMAIN a.evmLogs : r.evmLogs[k] = b.evmLogs[k]

\* C16: mergeDataHandlers(a, b) holds a's handlers followed by b's in pre, in
\* post and under every key defined on both sides, and takes a key defined on
\* one side unchanged; so no handler is dropped or duplicated.  Checked of
\* each of the four merges made.
C16_OrderPreserved ==
    /\ hpc # "start" => AThenB(regA, regB, regAB)
    /\ hpc \notin {"start", "ab"} => AThenB(regB, regA, regBA)
    /\ hpc \in {"ab-c", "bc", "a-bc"} => AThenB(regAB, regC, regABThenC)
    /\ hpc = "a-bc" => AThenB(regA, regBC, regAThenBC)

\* C16 witness: a and b both define pre, post, key x of events and address x
\* of evmLogs, only b defines key y, and the merge lists a's handlers first.
C16_Witness ==
    /\ hpc = "ab"
    /\ DOMAIN regA.events = {"x"} /\ DOMAIN regB.events = Keys
    /\ "x" \in DOMAIN regA.evmLogs /\ "x" \in DOMAIN regB.evmLogs
    /\ regAB.pre = <<Handler("a", "pre", ""), Handler("b", "pre", "")>>
    /\ regAB.post = <<Handler("a", "post", ""), Handler("b", "post", "")>>
    /\ regAB.events["x"].handlers = <<Handler("a", "events", "x"), Handler("b", "events", "x")>>
    /\ [i \in 1..2 |-> regAB.evmLogs["x"].items[i].handler]
          = <<Handler("a", "evmLogs", "x"), Handler("b", "evmLogs", "x")>>
    /\ regAB.events["y"] = regB.events["y"]

\* The elements of a sequence.
Elements(seq) == {seq[i] : i \in DOMAIN seq}

\* What a registry holds when the order of handlers is left aside: the set of
\* handlers of every list and the data of every handler list.
Unordered(r) ==
    [pre |-> Elements(r.pre),
     post |-> Elements(r.post),
     lists |-> [cat \in ListCategories |->
                   [k \in DOMAIN r[cat] |->
                       [data |-> r[cat][k].data, handlers |-> Elements(r[cat][k].handlers)]]],
     evmLogs |-> [k \in DOMAIN r.evmLogs |-> Elements(r.evmLogs[k].items)]]

\* C17: merging (a, b) then c and merging a with (b, c) give the same sets of
\* handlers and the same data under every key of every category, and so do
\* merging (a, b) and (b, a).
C17_AssociativeCommutative ==
    /\ hpc \notin {"start", "ab"} => Unordered(regAB) = Unordered(regBA)
    /\ hpc = "a-bc" => Unordered(regABThenC) = Unordered(regAThenBC)

\* C17 witness: a, b and c all register under event key x, with data
\* {x: true}, {x: {y: true}} and {x: true}; both groupings hold the three
\* handlers and data {x: true}, and the two orders of a and b differ.
C17_Witness ==
    /\ hpc = "a-bc"
    /\ \A r \in {regA, regB, regC} : "x" \in DOMAIN r.events
    /\ regA.events["x"].data = Map([k \in {"x"} |-> True])
    /\ regB.events["x"].data = Map([k \in {"x"} |-> Map([j \in {"y"} |-> True])])
    /\ regC.events["x"].data = Map([k \in {"x"} |-> True])
    /\ Cardinality(Elements(regABThenC.events["x"].handlers)) = 3
    /\ regABThenC.events["x"].data = Map([k \in {"x"} |-> True])
    /\ regAThenBC.events["x"] = regABThenC.events["x"]
    /\ regAB.events["x"].handlers # regBA.events["x"].handlers
    /\ Unordered(regAB) = Unordered(regBA)

====
